---- MODULE Spec2Model ----
(***************************************************************************)
(* Model of the VoyAIge chat page (src/unnamed/part_000): the payload      *)
(* normalizer, the send/settle pipeline of the Home component, its speech  *)
(* bridge (speech synthesis, speech recognition, the scheduled reply read  *)
(* and the read-as-you-type timer) and the itinerary viewer.               *)
(*                                                                         *)
(* Text is a sequence of characters, each a string.  The characters that   *)
(* the helpers of the source look at are kept as themselves ("\n", "\r",   *)
(* " ", the letters of the tag json, the backtick as "bt"); a JSON         *)
(* document is written                                                     *)
(* with one character per JSON token: "{" and "}" delimit an object and    *)
(* each member of the object is one character (see JSONparse).             *)
(***************************************************************************)
EXTENDS Integers, Sequences, FiniteSets, TLC

\* ------------------------------------------------------------------------
\* Bounds of the model
\* ------------------------------------------------------------------------
MaxSends == 2

MaxPieces == 5

MaxDays == 3

MaxImages == 3

\* ------------------------------------------------------------------------
\* String helpers (String.prototype.trim / startsWith / endsWith / split /
\* join as used by stripCodeFence)
\* ------------------------------------------------------------------------
\* three backticks; the backtick character is written "bt"
Fence == <<"bt", "bt", "bt">>

JsonTag == <<"j", "s", "o", "n">>

\* the white space characters of the alphabet of the model (trim and the class \s)
IsWs(c) == c \in {" ", "\n", "\r"}

RECURSIVE TrimStart(_)
TrimStart(s) ==
    IF s = <<>> THEN <<>>
    ELSE IF IsWs(Head(s)) THEN TrimStart(Tail(s)) ELSE s

RECURSIVE TrimEnd(_)
TrimEnd(s) ==
    IF s = <<>> THEN <<>>
    ELSE IF IsWs(s[Len(s)]) THEN TrimEnd(SubSeq(s, 1, Len(s) - 1)) ELSE s

Trim(s) == TrimEnd(TrimStart(s))

StartsWithAt(s, p, i) ==
    /\ i >= 1
    /\ i + Len(p) - 1 <= Len(s)
    /\ SubSeq(s, i, i + Len(p) - 1) = p

StartsWith(s, p) == StartsWithAt(s, p, 1)

EndsWith(s, p) == StartsWithAt(s, p, Len(s) - Len(p) + 1)

Contains(s, p) == \E i \in 1..(Len(s) + 1) : StartsWithAt(s, p, i)

\* s.split(/\r?\n/): the separator is "\n" with an optional "\r" before it
RECURSIVE SplitLines(_)
SplitLines(s) ==
    IF \A i \in 1..Len(s) : s[i] # "\n" THEN <<s>>
    ELSE LET i == CHOOSE k \in 1..Len(s) :
                      s[k] = "\n" /\ \A m \in 1..(k - 1) : s[m] # "\n"
             e == IF i > 1 /\ s[i - 1] = "\r" THEN i - 2 ELSE i - 1
         IN  <<SubSeq(s, 1, e)>> \o SplitLines(SubSeq(s, i + 1, Len(s)))

\* lines.join("\n")
RECURSIVE JoinLines(_)
JoinLines(lines) ==
    IF lines = <<>> THEN <<>>
    ELSE IF Len(lines) = 1 THEN lines[1]
    ELSE lines[1] \o <<"\n">> \o JoinLines(Tail(lines))

\* lines.shift(); lines.pop() on an array (pop of an empty array is a no-op)
ShiftPop(lines) ==
    LET shifted == Tail(lines)
    IN  IF shifted = <<>> THEN <<>> ELSE SubSeq(shifted, 1, Len(shifted) - 1)

\* trimmed.match(fence, optional tag json, newline, lazy body, newline,
\* fence): the capture group of the leftmost match, the lazy body ending at
\* the first newline-fence after it
FenceClose == <<"\n">> \o Fence

BodyStartAt(s, p) ==
    IF StartsWithAt(s, Fence \o JsonTag \o <<"\n">>, p)
    THEN p + Len(Fence \o JsonTag \o <<"\n">>)
    ELSE IF StartsWithAt(s, Fence \o <<"\n">>, p)
         THEN p + Len(Fence \o <<"\n">>)
         ELSE 0

CloseFrom(s, b) == {q \in b..Len(s) : StartsWithAt(s, FenceClose, q)}

MatchStarts(s) ==
    {p \in 1..Len(s) : BodyStartAt(s, p) > 0 /\ CloseFrom(s, BodyStartAt(s, p)) # {}}

Min(S) == CHOOSE x \in S : \A y \in S : x <= y

Max(S) == CHOOSE x \in S : \A y \in S : x >= y

FenceMatch(s) ==
    IF MatchStarts(s) = {} THEN [found |-> FALSE, body |-> <<>>]
    ELSE LET p == Min(MatchStarts(s))
             b == BodyStartAt(s, p)
             q == Min(CloseFrom(s, b))
         IN  [found |-> TRUE, body |-> SubSeq(s, b, q - 1)]

\* a variant that trims the text and leaves a fence in place
stripNoFence(input) == Trim(input)

\* stripCodeFence: the first and last line of a text that starts and ends
\* with a fence are removed; otherwise the body of the first fenced block
\* found in the text is taken; otherwise the text is returned trimmed
stripCodeFence(input) ==
    LET trimmed == Trim(input)
    IN  IF StartsWith(trimmed, Fence) /\ EndsWith(trimmed, Fence)
        THEN Trim(JoinLines(ShiftPop(SplitLines(trimmed))))
        ELSE IF FenceMatch(trimmed).found
             THEN Trim(FenceMatch(trimmed).body)
             ELSE trimmed

\* ------------------------------------------------------------------------
\* JSON values and JSON.parse / JSON.stringify
\*
\* A value is a record: t is its type ("obj", "num", "str", "null"), s the
\* text of a string, meta whether the member meta is present and truthy,
\* itin the kind of the member itinerary ("absent", "string", "array"), days
\* the elements of the itinerary array ("ok" a day object, "null" a null
\* element) and other whether the object has further members.
\* ------------------------------------------------------------------------
Val(t, s, meta, itin, days, other) ==
    [t |-> t, s |-> s, meta |-> meta, itin |-> itin, days |-> days, other |-> other]

Null == Val("null", <<>>, FALSE, "absent", <<>>, FALSE)

Num == Val("num", <<>>, FALSE, "absent", <<>>, FALSE)

Str(s) == Val("str", s, FALSE, "absent", <<>>, FALSE)

Obj(meta, itin, days, other) == Val("obj", <<>>, meta, itin, days, other)

\* the members of an object, one character each:
\*   "M" "meta":{..}            "X" any other member
\*   "E" "itinerary":[]         "I" "itinerary":[{..}]
\*   "D" "itinerary":[{..},{..}]  "B" "itinerary":[null]
\*   "S" "itinerary":"text"
ArrayMembers == {"E", "I", "D", "B"}

Members == {"M", "X", "S"} \cup ArrayMembers

DaysOf(c) ==
    CASE c = "I" -> <<"ok">>
      [] c = "D" -> <<"ok", "ok">>
      [] c = "B" -> <<"null">>
      [] OTHER -> <<>>

ArrayMemberOf(days) ==
    CASE days = <<"ok">> -> "I"
      [] days = <<"ok", "ok">> -> "D"
      [] days = <<"null">> -> "B"
      [] OTHER -> "E"

RECURSIVE RemoveWs(_)
RemoveWs(s) ==
    IF s = <<>> THEN <<>>
    ELSE IF IsWs(Head(s)) THEN RemoveWs(Tail(s))
         ELSE <<Head(s)>> \o RemoveWs(Tail(s))

\* JSON.parse: [ok |-> FALSE] stands for the SyntaxError it throws
JSONparse(s) ==
    LET t == RemoveWs(s)
        inner == SubSeq(t, 2, Len(t) - 1)
        has(c) == \E i \in 1..Len(inner) : inner[i] = c
        arrs == {i \in 1..Len(inner) : inner[i] \in ArrayMembers \cup {"S"}}
        last == inner[Max(arrs)]
    IN  IF t = <<"0">> THEN [ok |-> TRUE, v |-> Num]
        ELSE IF /\ Len(t) >= 2
                /\ t[1] = "{"
                /\ t[Len(t)] = "}"
                /\ \A i \in 1..Len(inner) : inner[i] \in Members
             THEN [ok |-> TRUE,
                   v |-> Obj(has("M"),
                             IF arrs = {} THEN "absent"
                             ELSE IF last = "S" THEN "string" ELSE "array",
                             IF arrs = {} THEN <<>> ELSE DaysOf(last),
                             has("X"))]
             ELSE [ok |-> FALSE, v |-> Null]

\* JSON.stringify(value, null, 2) of an object: one member per line,
\* indented by two spaces; "{}" for an object without members
MemberList(v) ==
    (IF v.meta THEN <<"M">> ELSE <<>>)
    \o (IF v.itin = "array" THEN <<ArrayMemberOf(v.days)>>
        ELSE IF v.itin = "string" THEN <<"S">> ELSE <<>>)
    \o (IF v.other THEN <<"X">> ELSE <<>>)

RECURSIVE IndentLines(_)
IndentLines(ms) ==
    IF ms = <<>> THEN <<>>
    ELSE <<"\n", " ", " ", Head(ms)>> \o IndentLines(Tail(ms))

JSONstringify(v) ==
    IF MemberList(v) = <<>> THEN <<"{", "}">>
    ELSE <<"{">> \o IndentLines(MemberList(v)) \o <<"\n", "}">>

\* ------------------------------------------------------------------------
\* Payload normalizer
\* ------------------------------------------------------------------------
\* a variant without the Array.isArray test
WeakIsItinerary(x) == x.t = "obj" /\ x.meta /\ x.itin # "absent"

\* isItinerary: an object with a truthy meta and an array itinerary
isItinerary(x) ==
    /\ x.t = "obj"
    /\ x.meta /\ x.itin # "absent"
    /\ x.itin = "array"

\* null when the text does not parse or is no itinerary
safeParseItinerary(raw) ==
    LET parsed == JSONparse(stripCodeFence(raw))
    IN  IF parsed.ok /\ isItinerary(parsed.v) THEN parsed.v ELSE Null

\* String(output).trim() / JSON.stringify fallback of send: what the reply
\* bubble shows for an output, and the itinerary it carries (Null: none)
InterpretOutput(output) ==
    IF output.t = "str"
    THEN LET itinerary == safeParseItinerary(output.s)
         IN  [itinerary |-> itinerary,
              botText |-> IF itinerary # Null THEN <<>> ELSE Trim(output.s)]
    ELSE IF output.t = "obj"
         THEN LET itinerary == IF isItinerary(output) THEN output ELSE Null
              IN  [itinerary |-> itinerary,
                   botText |-> IF itinerary # Null THEN <<>>
                               ELSE JSONstringify(output)]
         ELSE [itinerary |-> Null, botText |-> <<>>]

Caption == <<"Here's your itinerary">>

\* nextMsg of send
AssistantMessage(output) ==
    LET r == InterpretOutput(output)
    IN  [role |-> "assistant",
         content |-> IF r.botText # <<>> THEN r.botText
                     ELSE IF r.itinerary # Null THEN Caption ELSE <<>>,
         itinerary |-> r.itinerary]

\* ------------------------------------------------------------------------
\* Text spoken for a reply
\* ------------------------------------------------------------------------
\* replace(fence .. next fence, " ") of stripMarkdown, all occurrences
RECURSIVE RemoveFenced(_)
RemoveFenced(s) ==
    LET opens  == {p \in 1..Len(s) : StartsWithAt(s, Fence, p)}
        p      == Min(opens)
        closes == {q \in (p + Len(Fence))..Len(s) : StartsWithAt(s, Fence, q)}
        q      == Min(closes)
    IN  IF opens = {} THEN s
        ELSE IF closes = {} THEN s
        ELSE SubSeq(s, 1, p - 1) \o <<" ">>
             \o RemoveFenced(SubSeq(s, q + Len(Fence), Len(s)))

\* replace(/\s{2,}/g, " ")
RECURSIVE CollapseWs(_)
CollapseWs(s) ==
    IF Len(s) < 2 THEN s
    ELSE IF IsWs(s[1]) /\ IsWs(s[2])
         THEN LET rest == TrimStart(s) IN <<" ">> \o CollapseWs(rest)
         ELSE <<s[1]>> \o CollapseWs(Tail(s))

\* stripMarkdown; the emphasis, heading and bullet replacements change no
\* text of the alphabet of the model, which has no "*", "_" or "#"
stripMarkdown(md) == Trim(CollapseWs(RemoveFenced(md)))

\* summarizeItinerary: the for-of loop reads d.date of every day, which
\* throws a TypeError on a null element; the header line is never empty
summarizeItinerary(it) ==
    IF it = Null THEN [throws |-> FALSE, text |-> <<>>]
    ELSE IF \E i \in 1..Len(it.days) : it.days[i] = "null"
         THEN [throws |-> TRUE, text |-> <<>>]
         ELSE [throws |-> FALSE, text |-> <<"summary">>]

TypeErrorMessage == <<"Cannot read properties of null">>

\* [a, b].filter(Boolean).join(" \n")
JoinNonEmpty(a, b) ==
    IF a = <<>> THEN b
    ELSE IF b = <<>> THEN a ELSE a \o <<" ", "\n">> \o b

\* ------------------------------------------------------------------------
\* State of the page
\* ------------------------------------------------------------------------
VARIABLES
    messages,              \* useState<ChatMessage[]>
    message,               \* the text of the input field
    loading,               \* useState(false)
    autoRead,              \* the auto-read checkbox
    listening,             \* useState(false): the mic is on
    listeningRef,          \* copy of listening read by the timers
    readDelayAfterMicRef,  \* set when a recognition session ended
    pendingSpeakRef,       \* TRUE: the reply-read timer is armed
    draftTimer,            \* TRUE: the read-as-you-type timer is armed
    utterance,             \* speech engine: "none", "pending", "speaking"
    utteranceKind,         \* what it speaks: "reply", "draft", "error", "visible"
    speaking,              \* useTTS flags
    paused,
    recState,              \* recognition session: "idle", "active", "stopping", "errored"
    ttsSupported,
    sttSupported,
    inflight,              \* outstanding requests, each with the closure of its send
    effectsPending,        \* changed state whose effects have not run yet
    sendOutcome,           \* how the latest call of send ended
    lastResponse,          \* the response the latest settlement processed
    deferred,              \* a reply read was put back because the mic was on
    micEnded,              \* a recognition session ended and no send was
                           \* accepted since
    dayIndex,              \* ItineraryView: useState(0)
    viewDays,              \* ItineraryView: data.itinerary, a day being the
                           \* number of images of its activity
    imgIndex,              \* ActivityItem: idx
    sameKey,               \* the activities of all days have one activity_id
    fnIn,                  \* input of the text helpers
    fnOut,                 \* their results
    loc,                   \* googleMapsLink: its argument
    mapUrl,                \* ActivityItem: mapUrl, the link it returned
    req,                   \* POST: the request it was called with
    post                   \* POST: where the handler is, what it holds and
                           \* the replies it returned

vars ==
    <<messages, message, loading, autoRead, listening, listeningRef,
      readDelayAfterMicRef, pendingSpeakRef, draftTimer, utterance,
      utteranceKind, speaking, paused, recState, ttsSupported, sttSupported,
      inflight, effectsPending, sendOutcome, lastResponse, deferred, micEnded,
      dayIndex,
      viewDays, imgIndex, sameKey, fnIn, fnOut, loc, mapUrl, req, post>>

chatVars ==
    <<messages, message, loading, autoRead, listening, listeningRef,
      readDelayAfterMicRef, pendingSpeakRef, draftTimer, utterance,
      utteranceKind, speaking, paused, recState, ttsSupported, sttSupported,
      inflight, effectsPending, sendOutcome, lastResponse, deferred, micEnded>>

viewVars == <<dayIndex, viewDays, imgIndex, sameKey>>

linkVars == <<loc, mapUrl>>

postVars == <<req, post>>

fnVars == <<fnIn, fnOut, linkVars, postVars>>

\* the part of the state the handlers and effects of Home rewrite, as a record
St ==
    [messages |-> messages, message |-> message, loading |-> loading,
     autoRead |-> autoRead, listening |-> listening,
     listeningRef |-> listeningRef,
     readDelayAfterMicRef |-> readDelayAfterMicRef,
     pendingSpeakRef |-> pendingSpeakRef, draftTimer |-> draftTimer,
     utterance |-> utterance, utteranceKind |-> utteranceKind,
     speaking |-> speaking, paused |-> paused, deferred |-> deferred,
     micEnded |-> micEnded]

Commit(s) ==
    /\ messages' = s.messages
    /\ message' = s.message
    /\ loading' = s.loading
    /\ autoRead' = s.autoRead
    /\ listening' = s.listening
    /\ listeningRef' = s.listeningRef
    /\ readDelayAfterMicRef' = s.readDelayAfterMicRef
    /\ pendingSpeakRef' = s.pendingSpeakRef
    /\ draftTimer' = s.draftTimer
    /\ utterance' = s.utterance
    /\ utteranceKind' = s.utteranceKind
    /\ speaking' = s.speaking
    /\ paused' = s.paused
    /\ deferred' = s.deferred
    /\ micEnded' = s.micEnded

Welcome ==
    [role |-> "assistant", content |-> <<"Hey! I'm your trip-planning buddy.">>,
     itinerary |-> Null]

NoResponse == [kind |-> "none"]

\* ------------------------------------------------------------------------
\* useTTS
\* ------------------------------------------------------------------------
\* speak: nothing without speechSynthesis or for an empty text; otherwise
\* synth.cancel() drops what is queued and the new utterance is queued
speak(s, text, kind) ==
    IF ~ttsSupported \/ text = <<>> THEN s
    ELSE [s EXCEPT !.utterance = "pending", !.utteranceKind = kind]

\* cancel: synth.cancel(); setSpeaking(false); setPaused(false)
cancel(s) ==
    IF ~ttsSupported THEN s
    ELSE [s EXCEPT !.utterance = "none", !.utteranceKind = "none",
                   !.speaking = FALSE, !.paused = FALSE]

\* clearTimeout(pendingSpeakRef.current); pendingSpeakRef.current = null
clearPendingSpeak(s) == [s EXCEPT !.pendingSpeakRef = FALSE, !.deferred = FALSE]

\* ------------------------------------------------------------------------
\* Effects of Home, in the order of their declaration
\* ------------------------------------------------------------------------
\* useEffect(() => { listeningRef.current = listening }, [listening])
listeningRefEffect(s) == [s EXCEPT !.listeningRef = s.listening]

\* read-as-you-type: the cleanup clears the timer of the previous run; the
\* timer is armed when auto-read is on, the mic is off, no session has just
\* ended and the draft is not blank
readAsYouTypeEffect(s) ==
    [s EXCEPT !.draftTimer =
        /\ s.autoRead
        /\ ~s.listening
        /\ ~s.readDelayAfterMicRef
        /\ Trim(s.message) # <<>>]

\* a variant that leaves the scheduled read in place
autoReadOffKeepTimer(s) == IF ~s.autoRead THEN cancel(s) ELSE s

\* auto-read switched off: clear the scheduled read and cancel speech
autoReadOffEffect(s) ==
    IF ~s.autoRead THEN cancel(clearPendingSpeak(s)) ELSE s

\* el.innerText of the scroll container: the bubbles, one after the other
RECURSIVE InnerText(_)
InnerText(ms) ==
    IF ms = <<>> THEN <<>>
    ELSE ms[1].content \o <<" ">> \o InnerText(Tail(ms))

\* readVisible
readVisible(s) ==
    LET text == Trim(CollapseWs(InnerText(s.messages)))
    IN  speak(s, text, "visible")

\* auto-read switched on: read what is on screen
readVisibleEffect(s) == IF s.autoRead THEN readVisible(s) ELSE s

\* the effects whose dependencies are among deps, after a commit
RunEffectsOn(s, deps) ==
    LET s1 == IF "listening" \in deps THEN listeningRefEffect(s) ELSE s
        s2 == IF deps \cap {"message", "autoRead", "listening"} # {}
              THEN readAsYouTypeEffect(s1) ELSE s1
        s3 == IF "autoRead" \in deps THEN autoReadOffEffect(s2) ELSE s2
        s4 == IF "autoRead" \in deps THEN readVisibleEffect(s3) ELSE s3
    IN  s4

\* the dependencies a handler changed
Changed(old, new) ==
    {d \in {"message", "autoRead", "listening"} :
        \/ d = "message" /\ old.message # new.message
        \/ d = "autoRead" /\ old.autoRead # new.autoRead
        \/ d = "listening" /\ old.listening # new.listening}

\* ------------------------------------------------------------------------
\* Responses of POST /api/itinerary
\*
\* kind "reject": fetch rejects (transport failure).  kind "http": a
\* response with a status; json says whether res.json() succeeds and data is
\* the parsed body: null or an object with an optional error string, an
\* optional output and the members of a value (Val).
\* ------------------------------------------------------------------------
Body(hasError, error, hasOutput, output, v) ==
    [t |-> v.t, hasError |-> hasError, error |-> error,
     hasOutput |-> hasOutput, output |-> output,
     meta |-> v.meta, itin |-> v.itin, days |-> v.days, other |-> v.other]

EmptyObject == Body(FALSE, <<>>, FALSE, Null, Obj(FALSE, "absent", <<>>, FALSE))

NullBody == Body(FALSE, <<>>, FALSE, Null, Null)

ErrorBody(e) == Body(TRUE, e, FALSE, Null, Obj(FALSE, "absent", <<>>, FALSE))

OutputBody(o) == Body(FALSE, <<>>, TRUE, o, Obj(FALSE, "absent", <<>>, FALSE))

DirectBody(v) == Body(FALSE, <<>>, FALSE, Null, v)

Http(status, json, data) ==
    [kind |-> "http", status |-> status, json |-> json, data |-> data]

Rejected == [kind |-> "reject", status |-> 0, json |-> FALSE, data |-> EmptyObject]

\* res.ok
Ok(status) == status >= 200 /\ status <= 299

\* the body as send sees it: data stays {} when res.json() throws
DataOf(r) == IF r.json THEN r.data ELSE EmptyObject

\* data as a value: its error member is one of its other members
AsValue(data) ==
    Val(data.t, <<>>, data.meta, data.itin, data.days, data.other \/ data.hasError)

\* data?.error ?? "Request failed (" + res.status + ")", the message thrown
\* when res.ok is false
FailureMessage(r) ==
    LET data == DataOf(r)
    IN  IF data.t = "obj" /\ data.hasError THEN data.error
        ELSE <<"Request failed (", ToString(r.status), ")">>

\* data?.output ?? data
OutputOf(r) ==
    LET data == DataOf(r)
    IN  IF data.t = "obj" /\ data.hasOutput /\ data.output.t # "null"
        THEN data.output
        ELSE AsValue(data)

FetchFailedMessage == <<"Failed to fetch">>

\* a variant that takes the other branch of the conditional below
UnknownErrorOf(msg) == <<"Unknown error">>

\* e instanceof Error ? e.message : "Unknown error"; all that is thrown
\* inside the try block is an Error
ErrorMessageOf(msg) == msg

\* ------------------------------------------------------------------------
\* send, after the await: the try block from res.ok on, catch and finally
\* ------------------------------------------------------------------------
\* a variant that puts the message in front
PrependMessage(s, m) == [s EXCEPT !.messages = <<m>> \o s.messages]

\* setMessages((prev) => [...prev, m])
AppendMessage(s, m) == [s EXCEPT !.messages = Append(s.messages, m)]

\* catch (e): one error bubble, spoken when auto-read was on at the send
CatchBranch(s, c, thrown) ==
    LET msg == ErrorMessageOf(thrown)
        s1  == AppendMessage(s, [role |-> "error",
                                 content |-> <<"Error: ">> \o msg,
                                 itinerary |-> Null])
    IN  IF c.autoRead /\ ttsSupported
        THEN speak(s1, <<"An error occurred: ">> \o msg, "error")
        ELSE s1

\* a variant without setLoading(false)
FinallyKeepLoading(s) == s

\* finally
Finally(s) == [s EXCEPT !.loading = FALSE]

\* the auto-read of the reply: arms the reply-read timer
ScheduleReply(s, nextMsg) ==
    LET toSpeak == JoinNonEmpty(stripMarkdown(nextMsg.content),
                                summarizeItinerary(nextMsg.itinerary).text)
    IN  IF toSpeak = <<>> THEN s
        ELSE [clearPendingSpeak(s) EXCEPT !.pendingSpeakRef = TRUE,
                                          !.readDelayAfterMicRef = FALSE]

\* c is the closure of the send that issued the request: autoRead as it was
\* when send was called
SettleOn(s, r, c) ==
    IF r.kind = "reject" THEN Finally(CatchBranch(s, c, FetchFailedMessage))
    ELSE IF ~Ok(r.status) THEN Finally(CatchBranch(s, c, FailureMessage(r)))
    ELSE LET nextMsg == AssistantMessage(OutputOf(r))
             s1 == AppendMessage(s, nextMsg)
         IN  IF c.autoRead /\ ttsSupported
             THEN IF summarizeItinerary(nextMsg.itinerary).throws
                  THEN Finally(CatchBranch(s1, c, TypeErrorMessage))
                  ELSE Finally(ScheduleReply(s1, nextMsg))
             ELSE Finally(s1)

\* ------------------------------------------------------------------------
\* Inputs
\* ------------------------------------------------------------------------
TypedTexts == {<<>>, <<" ">>, <<"h", "i">>}

Transcripts == {<<"h", "i">>}

\* the responses of the page model: each way a send can end
Responses ==
    { Rejected,
      Http(200, TRUE, OutputBody(Str(<<"h", "i">>))),
      Http(200, TRUE, OutputBody(Str(<<>>))),
      Http(200, TRUE, OutputBody(Obj(TRUE, "array", <<"null">>, FALSE))) }

UserMessages(ms) == {i \in 1..Len(ms) : ms[i].role = "user"}

\* ------------------------------------------------------------------------
\* Init: the page after mount (the mount effects have run; auto-read is
\* off, so the auto-read-off effect has cancelled nothing)
\* ------------------------------------------------------------------------
InitChat ==
    /\ messages = <<Welcome>>
    /\ message = <<>>
    /\ loading = FALSE
    /\ autoRead = FALSE
    /\ listening = FALSE
    /\ listeningRef = FALSE
    /\ readDelayAfterMicRef = FALSE
    /\ pendingSpeakRef = FALSE
    /\ draftTimer = FALSE
    /\ utterance = "none"
    /\ utteranceKind = "none"
    /\ speaking = FALSE
    /\ paused = FALSE
    /\ recState = "idle"
    /\ inflight = <<>>
    /\ effectsPending = {}
    /\ sendOutcome = "none"
    /\ lastResponse = NoResponse
    /\ deferred = FALSE
    /\ micEnded = FALSE

InitView == dayIndex = 0 /\ viewDays = <<>> /\ imgIndex = 0 /\ sameKey = FALSE

\* a value that is undefined, null, a number or a string
Undefined == [t |-> "undefined", n |-> 0, s |-> <<>>]

NullValue == [t |-> "null", n |-> 0, s |-> <<>>]

Number(n) == [t |-> "num", n |-> n, s |-> <<>>]

Text(s) == [t |-> "str", n |-> 0, s |-> s]

\* no call of googleMapsLink yet
NoLink == [done |-> FALSE, defined |-> FALSE, url |-> <<>>]

InitLink ==
    /\ loc = [given |-> FALSE, isNull |-> FALSE, lat |-> Undefined,
              lon |-> Undefined, name |-> Undefined, address |-> Undefined]
    /\ mapUrl = NoLink

\* no response of the webhook endpoint
NoEndpointResponse == [kind |-> "none", status |-> 0, text |-> <<>>]

\* the handler POST before it runs
PostStart ==
    [pc |-> "start", body |-> Null, forwarded |-> <<>>,
     response |-> NoEndpointResponse, replies |-> <<>>, escaped |-> FALSE]

InitPost ==
    /\ req = [text |-> <<"{", "}">>]
    /\ post = PostStart

InitFn ==
    /\ fnIn = [text |-> <<>>, tag |-> <<>>]
    /\ fnOut = [plain |-> "unset", wrapped |-> "unset"]
    /\ InitLink
    /\ InitPost

Init ==
    /\ InitChat
    /\ ttsSupported \in BOOLEAN
    /\ sttSupported \in BOOLEAN
    /\ InitView
    /\ InitFn

\* ------------------------------------------------------------------------
\* User events.  React flushes the effects still pending before it handles
\* the event and runs the effects of the event's own update synchronously.
\* ------------------------------------------------------------------------
Handle(s0, s1) ==
    /\ Commit(RunEffectsOn(s1, Changed(s0, s1)))
    /\ effectsPending' = {}

\* a variant of the guard without the test of loading
SendGuardNoLoading(s, text) == text = <<>>

\* the guard of send: if (!text || loading) return
SendRejects(s, text) == text = <<>> \/ s.loading

\* send(): called from the Send button and from Enter in the input field.
\* sendOutcome records how the call ended: "accepted", rejected with a
\* blank text ("blank") or rejected with a text to send ("busy")
Send(maxSends) ==
    /\ LET s0   == RunEffectsOn(St, effectsPending)
           text == Trim(s0.message)
       IN  IF SendRejects(s0, text)
           THEN /\ Handle(s0, s0)
                /\ inflight' = inflight
                /\ sendOutcome' = IF text = <<>> THEN "blank" ELSE "busy"
           ELSE /\ Cardinality(UserMessages(messages)) < maxSends
                /\ sendOutcome' = "accepted"
                /\ Handle(s0, [AppendMessage(s0, [role |-> "user",
                                                  content |-> text,
                                                  itinerary |-> Null])
                                 EXCEPT !.loading = TRUE, !.message = <<>>,
                                        !.micEnded = FALSE])
                /\ inflight' = Append(inflight, [autoRead |-> s0.autoRead])
    /\ UNCHANGED <<recState, ttsSupported, sttSupported, lastResponse>>
    /\ UNCHANGED <<viewVars, fnVars>>

\* onChange of the input field, which is disabled while loading
Type ==
    /\ ~loading
    /\ \E text \in TypedTexts :
          LET s0 == RunEffectsOn(St, effectsPending)
          IN  Handle(s0, [s0 EXCEPT !.message = text])
    /\ UNCHANGED <<recState, ttsSupported, sttSupported, inflight, sendOutcome,
                   lastResponse>>
    /\ UNCHANGED <<viewVars, fnVars>>

\* onChange of the auto-read checkbox
ToggleAutoRead ==
    /\ LET s0 == RunEffectsOn(St, effectsPending)
           checked == ~s0.autoRead
           s1 == [s0 EXCEPT !.autoRead = checked]
       IN  Handle(s0, IF ~checked THEN cancel(s1) ELSE s1)
    /\ UNCHANGED <<recState, ttsSupported, sttSupported, inflight, sendOutcome,
                   lastResponse>>
    /\ UNCHANGED <<viewVars, fnVars>>

\* a variant of toggleMic without the call of cancel()
toggleMicNoCancel(s0) ==
    IF ~s0.listening /\ s0.pendingSpeakRef THEN clearPendingSpeak(s0) ELSE s0

\* toggleMic up to cancel(): a scheduled reply read is dropped when the mic
\* is being started, and the speech in progress is stopped either way
toggleMicStopSpeech(s0) ==
    cancel(IF ~s0.listening /\ s0.pendingSpeakRef THEN clearPendingSpeak(s0)
           ELSE s0)

\* toggleMic; rec.start() throws InvalidStateError while the session it
\* started has not ended, which leaves the handler after setMessage("")
ToggleMic ==
    /\ sttSupported
    /\ LET s0 == RunEffectsOn(St, effectsPending)
           s1 == toggleMicStopSpeech(s0)
       IN  IF s0.listening
           THEN /\ Handle(s0, s1)
                /\ recState' = IF recState = "active" THEN "stopping" ELSE recState
           ELSE IF recState # "idle"
                THEN /\ Handle(s0, [s1 EXCEPT !.message = <<>>])
                     /\ recState' = recState
                ELSE /\ Handle(s0, [s1 EXCEPT !.message = <<>>, !.listening = TRUE])
                     /\ recState' = "active"
    /\ UNCHANGED <<ttsSupported, sttSupported, inflight, sendOutcome, lastResponse>>
    /\ UNCHANGED <<viewVars, fnVars>>

\* ------------------------------------------------------------------------
\* Callbacks of the browser.  Their state updates are committed at once;
\* the effects of the update run later (RunEffects), and timers may fire in
\* between.
\* ------------------------------------------------------------------------
Defer(s0, s1) ==
    /\ Commit(s1)
    /\ effectsPending' = effectsPending \cup Changed(s0, s1)

\* the request of a send settles and the rest of send runs
Settle(R) ==
    /\ inflight # <<>>
    /\ \E r \in R :
          /\ Defer(St, SettleOn(St, r, Head(inflight)))
          /\ lastResponse' = r
    /\ inflight' = Tail(inflight)
    /\ UNCHANGED <<recState, ttsSupported, sttSupported, sendOutcome>>
    /\ UNCHANGED <<viewVars, fnVars>>

\* rec.onresult: the transcript of the session replaces the input text
RecResult ==
    /\ recState \in {"active", "stopping"}
    /\ \E t \in Transcripts : Defer(St, [St EXCEPT !.message = t])
    /\ UNCHANGED <<recState, ttsSupported, sttSupported, inflight, sendOutcome,
                   lastResponse>>
    /\ UNCHANGED <<viewVars, fnVars>>

\* rec.onerror; the session still ends with onend
RecError ==
    /\ recState \in {"active", "stopping"}
    /\ Defer(St, [St EXCEPT !.listening = FALSE])
    /\ recState' = "errored"
    /\ UNCHANGED <<ttsSupported, sttSupported, inflight, sendOutcome, lastResponse>>
    /\ UNCHANGED <<viewVars, fnVars>>

\* the unlock utterance of rec.onend: synth.speak(unlock); synth.cancel()
\* empties the queue of the engine and leaves the flags of useTTS alone
unlockSynth(s) ==
    IF ~ttsSupported THEN s
    ELSE [s EXCEPT !.utterance = "none", !.utteranceKind = "none"]

recOnEnd(s) ==
    LET s1 == unlockSynth([s EXCEPT !.listening = FALSE])
        s2 == IF s1.pendingSpeakRef
              THEN [s1 EXCEPT !.pendingSpeakRef = FALSE] ELSE s1
    IN  [s2 EXCEPT !.readDelayAfterMicRef = TRUE, !.micEnded = TRUE]

\* rec.onend
RecEnd ==
    /\ recState # "idle"
    /\ Defer(St, recOnEnd(St))
    /\ recState' = "idle"
    /\ UNCHANGED <<ttsSupported, sttSupported, inflight, sendOutcome, lastResponse>>
    /\ UNCHANGED <<viewVars, fnVars>>

\* the passive effects of the latest commit run
RunEffects ==
    /\ effectsPending # {}
    /\ Commit(RunEffectsOn(St, effectsPending))
    /\ effectsPending' = {}
    /\ UNCHANGED <<recState, ttsSupported, sttSupported, inflight, sendOutcome,
                   lastResponse>>
    /\ UNCHANGED <<viewVars, fnVars>>

\* scheduleSpeak, the callback of the reply-read timer
scheduleSpeak(s) ==
    IF s.listeningRef
    THEN [s EXCEPT !.pendingSpeakRef = TRUE, !.deferred = TRUE]
    ELSE [speak(s, <<"reply">>, "reply") EXCEPT !.pendingSpeakRef = FALSE,
                                                !.deferred = FALSE]

ScheduleSpeakFire ==
    /\ pendingSpeakRef
    /\ Commit(scheduleSpeak(St))
    /\ UNCHANGED <<recState, ttsSupported, sttSupported, inflight, sendOutcome,
                   lastResponse, effectsPending>>
    /\ UNCHANGED <<viewVars, fnVars>>

\* the callback of the read-as-you-type timer: speak(text), text being the
\* non-blank draft the effect saw when it armed the timer
draftSpeak(s) == [speak(s, <<"draft">>, "draft") EXCEPT !.draftTimer = FALSE]

DraftTimerFire ==
    /\ draftTimer
    /\ Commit(draftSpeak(St))
    /\ UNCHANGED <<recState, ttsSupported, sttSupported, inflight, sendOutcome,
                   lastResponse, effectsPending>>
    /\ UNCHANGED <<viewVars, fnVars>>

\* u.onstart
SynthStart ==
    /\ utterance = "pending"
    /\ Commit([St EXCEPT !.utterance = "speaking", !.speaking = TRUE])
    /\ UNCHANGED <<recState, ttsSupported, sttSupported, inflight, sendOutcome,
                   lastResponse, effectsPending>>
    /\ UNCHANGED <<viewVars, fnVars>>

\* u.onend: the utterance has been spoken to its end
SynthEnd ==
    /\ utterance = "speaking"
    /\ Commit([St EXCEPT !.utterance = "none", !.utteranceKind = "none",
                         !.speaking = FALSE, !.paused = FALSE])
    /\ UNCHANGED <<recState, ttsSupported, sttSupported, inflight, sendOutcome,
                   lastResponse, effectsPending>>
    /\ UNCHANGED <<viewVars, fnVars>>

Next ==
    \/ Send(MaxSends)
    \/ Type
    \/ ToggleAutoRead
    \/ ToggleMic
    \/ Settle(Responses)
    \/ RecResult
    \/ RecError
    \/ RecEnd
    \/ RunEffects
    \/ ScheduleSpeakFire
    \/ DraftTimerFire
    \/ SynthStart
    \/ SynthEnd

Spec == Init /\ [][Next]_vars

\* ------------------------------------------------------------------------
\* The send pipeline over the shapes a response can have (SpecSend): the
\* same handlers, the mic left alone, the responses drawn from AllResponses
\* ------------------------------------------------------------------------
MaxPayloadSends == 1

\* JSON documents that are itineraries (meta and an array itinerary) ...
ItineraryDocs ==
    { <<"{", "M", "I", "}">>,
      <<"{", "M", "E", "}">>,
      <<"{", "\n", " ", "M", "\n", " ", "D", "X", "\n", "}">> }

\* ... and texts that are not: no meta, no itinerary, an itinerary that is
\* no array, an empty object, a number, prose, nothing
OtherDocs ==
    { <<"{", "I", "}">>,
      <<"{", "M", "}">>,
      <<"{", "M", "S", "}">>,
      <<"{", "}">>,
      <<"0">>,
      <<"h", "i">>,
      <<>> }

\* a text as it is, fenced with or without the tag json, fenced with CRLF
\* line ends, and the bare and the json-fenced text inside white space
Bare(J) == J

Fenced(J, tag) == Fence \o tag \o <<"\n">> \o J \o <<"\n">> \o Fence

FencedCRLF(J) ==
    Fence \o JsonTag \o <<"\r", "\n">> \o J \o <<"\r", "\n">> \o Fence

Padded(t) == <<" ">> \o t \o <<"\n">>

Wrappings(J) ==
    LET tight == {Bare(J), Fenced(J, JsonTag), Fenced(J, <<>>), FencedCRLF(J)}
    IN  tight \cup {Padded(Bare(J)), Padded(Fenced(J, JsonTag))}

ItineraryTexts == UNION {Wrappings(J) : J \in ItineraryDocs}

OtherTexts == UNION {Wrappings(J) : J \in OtherDocs}

ObjectOutputs ==
    {Obj(m, "array", d, FALSE) : m \in BOOLEAN, d \in {<<>>, <<"ok">>, <<"null">>}}
    \cup {Obj(m, k, <<>>, x) : m \in BOOLEAN, k \in {"absent", "string"}, x \in BOOLEAN}

Outputs ==
    {Str(t) : t \in ItineraryTexts \cup OtherTexts} \cup ObjectOutputs \cup {Num}

Statuses == {200, 429, 500}

AllResponses ==
    {Rejected}
    \cup {Http(st, FALSE, EmptyObject) : st \in Statuses}
    \cup {Http(st, TRUE, d) :
            st \in Statuses,
            d \in {NullBody, EmptyObject, ErrorBody(<<"rate", " ", "limited">>),
                   OutputBody(Str(<<"h", "i">>))}}
    \cup {Http(200, TRUE, OutputBody(o)) : o \in Outputs}
    \cup {Http(200, TRUE, DirectBody(o)) : o \in ObjectOutputs}

InitSend ==
    /\ InitChat
    /\ ttsSupported \in BOOLEAN
    /\ sttSupported = FALSE
    /\ InitView
    /\ InitFn

NextSend ==
    \/ Send(MaxPayloadSends)
    \/ Type
    \/ ToggleAutoRead
    \/ Settle(AllResponses)
    \/ ScheduleSpeakFire
    \/ DraftTimerFire
    \/ SynthStart
    \/ SynthEnd

SpecSend == InitSend /\ [][NextSend]_vars

\* ------------------------------------------------------------------------
\* stripCodeFence on its own (SpecText): a text J made of at most MaxPieces
\* pieces and a language tag are drawn; the helper is applied to J and to
\* J wrapped in a fenced block
\* ------------------------------------------------------------------------
Pieces == {Fence, <<"\n">>, <<"\r">>, <<" ">>, <<"x">>, JsonTag}

RECURSIVE Flatten(_)
Flatten(ps) == IF ps = <<>> THEN <<>> ELSE Head(ps) \o Flatten(Tail(ps))

Texts == {Flatten(ps) : ps \in UNION {[1..n -> Pieces] : n \in 0..MaxPieces}}

Tags == {<<>>, JsonTag, <<"x">>}

InitText ==
    /\ InitChat
    /\ ttsSupported = TRUE
    /\ sttSupported = TRUE
    /\ InitView
    /\ fnIn \in [text : Texts, tag : Tags]
    /\ fnOut = [plain |-> "unset", wrapped |-> "unset"]
    /\ InitLink
    /\ InitPost

StripPlain ==
    /\ fnOut.plain = "unset"
    /\ fnOut' = [fnOut EXCEPT !.plain = stripCodeFence(fnIn.text)]
    /\ UNCHANGED <<fnIn, linkVars, postVars, chatVars, viewVars>>

StripWrapped ==
    /\ fnOut.wrapped = "unset"
    /\ fnOut' = [fnOut EXCEPT !.wrapped = stripCodeFence(Fenced(fnIn.text, fnIn.tag))]
    /\ UNCHANGED <<fnIn, linkVars, postVars, chatVars, viewVars>>

NextText == StripPlain \/ StripWrapped

SpecText == InitText /\ [][NextText]_vars

\* ------------------------------------------------------------------------
\* The itinerary viewer of one message (SpecView): ItineraryView with the
\* ActivityItem of the day it shows.  The itinerary is any array of at
\* most MaxDays days, a day having one activity with at most MaxImages
\* images.  React keeps the state of the ActivityItem from one day to the
\* next when the two activities have the same key (activity_id) and mounts
\* a new one, idx 0, when they do not.
\* ------------------------------------------------------------------------
InitViewer ==
    /\ InitChat
    /\ ttsSupported = TRUE
    /\ sttSupported = TRUE
    /\ InitFn
    /\ viewDays \in UNION {[1..n -> 0..MaxImages] : n \in 0..MaxDays}
    /\ sameKey \in BOOLEAN
    /\ dayIndex = 0
    /\ imgIndex = 0

\* disabled={dayIndex === 0}
prevDayDisabled(i) == i = 0

\* a variant that leaves the button enabled
neverDisabled(i, n) == FALSE

\* disabled={dayIndex >= days.length - 1}
nextDayDisabled(i, n) == i >= n - 1

\* the ActivityItem after the day shown has changed
Remount(i) == IF sameKey THEN i ELSE 0

\* setDayIndex((i) => Math.max(0, i - 1))
PrevDay ==
    /\ ~prevDayDisabled(dayIndex)
    /\ dayIndex' = Max({0, dayIndex - 1})
    /\ imgIndex' = Remount(imgIndex)
    /\ UNCHANGED <<viewDays, sameKey, chatVars, fnVars>>

\* setDayIndex((i) => Math.min(days.length - 1, i + 1))
NextDay ==
    /\ ~nextDayDisabled(dayIndex, Len(viewDays))
    /\ dayIndex' = Min({Len(viewDays) - 1, dayIndex + 1})
    /\ imgIndex' = Remount(imgIndex)
    /\ UNCHANGED <<viewDays, sameKey, chatVars, fnVars>>

\* the remainder operator of JavaScript: the sign of the dividend
JsRem(a, b) == IF a >= 0 THEN a % b ELSE -((-a) % b)

\* a variant with a single remainder
remainderIndex(n, len) == IF len # 0 THEN JsRem(n, len) ELSE 0

\* safeIndex of ActivityItem
safeIndex(n, len) == IF len # 0 THEN JsRem(JsRem(n, len) + len, len) ELSE 0

\* imgs.length of the activity shown; 0 when no day is shown
ImagesShown ==
    IF dayIndex + 1 \in 1..Len(viewDays) THEN viewDays[dayIndex + 1] ELSE 0

\* hasImages of ActivityItem; without images the placeholder is rendered
hasImages == ImagesShown > 0

\* current of ActivityItem: the position in imgs of the image shown, from
\* 0, and -1 for undefined
currentImage == IF hasImages THEN safeIndex(imgIndex, ImagesShown) ELSE -1

\* the photo buttons are rendered when imgs.length > 1
PrevImage ==
    /\ ImagesShown > 1
    /\ imgIndex' = safeIndex(imgIndex - 1, ImagesShown)
    /\ UNCHANGED <<dayIndex, viewDays, sameKey, chatVars, fnVars>>

NextImage ==
    /\ ImagesShown > 1
    /\ imgIndex' = safeIndex(imgIndex + 1, ImagesShown)
    /\ UNCHANGED <<dayIndex, viewDays, sameKey, chatVars, fnVars>>

NextView == PrevDay \/ NextDay \/ PrevImage \/ NextImage

SpecView == InitViewer /\ [][NextView]_vars

\* ------------------------------------------------------------------------
\* googleMapsLink on its own (SpecLink): a location is drawn, each of its
\* fields missing, null or set (a coordinate also 0, a text also empty),
\* and ActivityItem computes its map link
\* ------------------------------------------------------------------------
Coordinates == {Undefined, NullValue, Number(0), Number(7)}

PlaceTexts == {Undefined, Text(<<>>), Text(<<"a", " ", "b">>)}

Locations ==
    { [given |-> FALSE, isNull |-> b, lat |-> Undefined, lon |-> Undefined,
       name |-> Undefined, address |-> Undefined] : b \in BOOLEAN }
    \cup [given : {TRUE}, isNull : {FALSE}, lat : Coordinates, lon : Coordinates,
          name : PlaceTexts, address : PlaceTexts]

\* x != null
NotNullish(x) == x.t \notin {"undefined", "null"}

\* the truth value of a field that is a string, undefined or null
Truthy(x) == x.t = "str" /\ x.s # <<>>

\* encodeURIComponent over the characters of the model: the space is escaped
RECURSIVE encodeURIComponent(_)
encodeURIComponent(s) ==
    IF s = <<>> THEN <<>>
    ELSE <<IF Head(s) = " " THEN "%20" ELSE Head(s)>> \o encodeURIComponent(Tail(s))

Link(url) == [done |-> TRUE, defined |-> TRUE, url |-> url]

UndefinedLink == [done |-> TRUE, defined |-> FALSE, url |-> <<>>]

CoordinateLink(lat, lon) ==
    Link(<<"https://maps.google.com/?q=", ToString(lat.n), ",", ToString(lon.n)>>)

SearchLink(text) ==
    Link(<<"https://www.google.com/maps/search/?api=1&query=">>
         \o encodeURIComponent(text.s))

\* a variant that looks at the name before the coordinates
googleMapsLinkNameFirst(l) ==
    IF ~l.given THEN UndefinedLink
    ELSE IF Truthy(l.name) THEN SearchLink(l.name)
    ELSE IF NotNullish(l.lat) /\ NotNullish(l.lon) THEN CoordinateLink(l.lat, l.lon)
    ELSE IF Truthy(l.address) THEN SearchLink(l.address)
    ELSE UndefinedLink

\* googleMapsLink; ActivityItem passes activity.location || undefined, so a
\* null location arrives as undefined
googleMapsLink(l) ==
    IF ~l.given THEN UndefinedLink
    ELSE IF NotNullish(l.lat) /\ NotNullish(l.lon) THEN CoordinateLink(l.lat, l.lon)
    ELSE IF Truthy(l.name) THEN SearchLink(l.name)
    ELSE IF Truthy(l.address) THEN SearchLink(l.address)
    ELSE UndefinedLink

InitLocation ==
    /\ InitChat
    /\ ttsSupported = TRUE
    /\ sttSupported = TRUE
    /\ InitView
    /\ fnIn = [text |-> <<>>, tag |-> <<>>]
    /\ fnOut = [plain |-> "unset", wrapped |-> "unset"]
    /\ loc \in Locations
    /\ mapUrl = NoLink
    /\ InitPost

\* const mapUrl = googleMapsLink(activity.location || undefined)
RenderMapLink ==
    /\ ~mapUrl.done
    /\ mapUrl' = googleMapsLink(loc)
    /\ UNCHANGED <<loc, fnIn, fnOut, postVars, chatVars, viewVars>>

NextLink == RenderMapLink

SpecLink == InitLocation /\ [][NextLink]_vars

\* ------------------------------------------------------------------------
\* The webhook proxy (SpecPost): one call of the route handler POST.  The
\* request body and the answer of the external endpoint are drawn from
\* JSON documents with and without white space, with a repeated member,
\* and from texts that are no JSON.
\* ------------------------------------------------------------------------
JsonBodies ==
    { <<"{", "}">>,
      <<"{", "X", "}">>,
      <<"{", "\n", " ", "M", "\n", " ", "I", "\n", "}">>,
      <<"{", "S", "I", "}">>,
      <<"0">> }

NonJsonBodies == { <<>>, <<"h", "i">> }

\* statuses for which a Response must have no body
NullBodyStatuses == {204, 205, 304}

EndpointStatuses == {200, 204, 404, 500}

\* the answers of fetch(webhookUrl): it rejects, or resolves with a status
\* and a body; a response with a null-body status has an empty body
EndpointResponses ==
    {[kind |-> "reject", status |-> 0, text |-> <<>>]}
    \cup {[kind |-> "http", status |-> st, text |-> b] :
            st \in EndpointStatuses \ NullBodyStatuses,
            b \in JsonBodies \cup NonJsonBodies}
    \cup {[kind |-> "http", status |-> st, text |-> <<>>] :
            st \in EndpointStatuses \cap NullBodyStatuses}

\* JSON.stringify(value): the members without white space
stringifyCompact(v) ==
    IF v.t = "num" THEN <<"0">> ELSE <<"{">> \o MemberList(v) \o <<"}">>

\* JSON.stringify({ message: 'Webhook trigger failed' }), status 500
FailureReply ==
    [status |-> 500, body |-> <<"{", "message:Webhook trigger failed", "}">>]

\* new Response(body, { status }) with a body throws a RangeError for a
\* status outside 200..599 and a TypeError for a null-body status
ResponseThrows(status) ==
    status \notin 200..599 \/ status \in NullBodyStatuses

\* a variant of the catch block that passes the error on
postRethrow(p) == [p EXCEPT !.pc = "done", !.escaped = TRUE]

\* the catch block of POST
postCatch(p) == [p EXCEPT !.pc = "done", !.replies = Append(@, FailureReply)]

InitRequest ==
    /\ InitChat
    /\ ttsSupported = TRUE
    /\ sttSupported = TRUE
    /\ InitView
    /\ fnIn = [text |-> <<>>, tag |-> <<>>]
    /\ fnOut = [plain |-> "unset", wrapped |-> "unset"]
    /\ InitLink
    /\ req \in [text : JsonBodies \cup NonJsonBodies]
    /\ post = PostStart

\* const body = await req.json()
PostReadBody ==
    /\ post.pc = "start"
    /\ LET parsed == JSONparse(req.text)
       IN  post' = IF parsed.ok
                   THEN [post EXCEPT !.pc = "fetch", !.body = parsed.v]
                   ELSE postCatch(post)
    /\ UNCHANGED <<req, fnIn, fnOut, linkVars, chatVars, viewVars>>

\* const response = await fetch(webhookUrl, { ... body: JSON.stringify(body) })
PostFetch ==
    /\ post.pc = "fetch"
    /\ \E r \in EndpointResponses :
          LET sent == [post EXCEPT !.forwarded = stringifyCompact(post.body)]
          IN  post' = IF r.kind = "reject" THEN postCatch(sent)
                      ELSE [sent EXCEPT !.pc = "parse", !.response = r]
    /\ UNCHANGED <<req, fnIn, fnOut, linkVars, chatVars, viewVars>>

\* const data = await response.json();
\* return new Response(JSON.stringify(data), { status: response.status })
PostReply ==
    /\ post.pc = "parse"
    /\ LET data == JSONparse(post.response.text)
       IN  post' = IF ~data.ok \/ ResponseThrows(post.response.status)
                   THEN postCatch(post)
                   ELSE [post EXCEPT !.pc = "done",
                                     !.replies = Append(@,
                                         [status |-> post.response.status,
                                          body |-> stringifyCompact(data.v)])]
    /\ UNCHANGED <<req, fnIn, fnOut, linkVars, chatVars, viewVars>>

NextPost == PostReadBody \/ PostFetch \/ PostReply

SpecPost == InitRequest /\ [][NextPost]_vars

\* ------------------------------------------------------------------------
\* Claims about the page (Spec)
\* ------------------------------------------------------------------------
RecognitionActive == listening /\ recState = "active"

\* C1: in every reachable state no utterance is queued or spoken by the
\* speech engine while the recognition session is listening.
C1_NoSpeechWhileListening == RecognitionActive => utterance = "none"

\* C2: a reply read that scheduleSpeak put back because the mic was on is
\* not dropped: while auto-read stays on and until it is spoken, its timer
\* stays armed (so that it is spoken once recognition has stopped).
C2_DeferredReadNotDropped == (deferred /\ autoRead) => pendingSpeakRef

\* the messages that follow the latest user message
LastUser == Max(UserMessages(messages))

Replies == SubSeq(messages, LastUser + 1, Len(messages))

\* C3: every accepted send appends the user message and its settlement
\* appends exactly one further message, of role assistant or error: the
\* list holds the welcome message, the user messages and one reply for
\* each settled request.
C3_ExactlyOneReply ==
    /\ Len(messages) = 1 + 2 * Cardinality(UserMessages(messages)) - Len(inflight)
    /\ \A i \in 2..Len(messages) : messages[i].role \in {"user", "assistant", "error"}

\* C4: a call of send with a blank text or with a request outstanding
\* changes neither the message list, the input text, the loading flag, the
\* scheduled speech nor the speech engine and issues no request; at most
\* one request is in flight.
C4_RejectedSendChangesNothing ==
    [][ /\ ( /\ sendOutcome' # sendOutcome
             /\ (Trim(message) = <<>> \/ inflight # <<>>) )
           => UNCHANGED <<messages, message, loading, pendingSpeakRef,
                          readDelayAfterMicRef, utterance, utteranceKind,
                          inflight>>
        /\ Len(inflight') <= 1 ]_vars

\* a send with a text to send was rejected, and the request that made it
\* so is still outstanding
C4_Witness ==
    /\ sendOutcome = "busy"
    /\ loading
    /\ Len(inflight) = 1

\* ------------------------------------------------------------------------
\* Claims about the replies (SpecSend)
\* ------------------------------------------------------------------------
\* the latest request has settled: Replies are the messages it produced
Settled == lastResponse # NoResponse /\ inflight = <<>>

Answered == Settled /\ lastResponse.kind = "http" /\ Ok(lastResponse.status)

\* the output of the latest response when its body parsed: the member
\* output of the body, the body itself without one
LastOutput ==
    IF lastResponse.data.hasOutput THEN lastResponse.data.output
    ELSE AsValue(lastResponse.data)

\* transport failure, non-success status, or a body that does not parse
FailureKind(r) == r.kind = "reject" \/ ~Ok(r.status) \/ ~r.json

\* C5: a send that ends in a transport failure, in a non-success status or
\* in an unparseable body appends a single message, of role error, and no
\* assistant message, whatever the status.
C5_FailureGivesOneError ==
    (Settled /\ FailureKind(lastResponse))
        => (Len(Replies) = 1 /\ Replies[1].role = "error")

CarriesErrorString(r) == r.json /\ r.data.t = "obj" /\ r.data.hasError

\* C6: after a non-success status the appended message has role error; its
\* content contains the error string of the body when the body carries
\* one, and the status code otherwise.
C6_ErrorStringShown ==
    (Settled /\ lastResponse.kind = "http" /\ ~Ok(lastResponse.status))
        => /\ Len(Replies) = 1
           /\ Replies[1].role = "error"
           /\ IF CarriesErrorString(lastResponse)
              THEN Contains(Replies[1].content, lastResponse.data.error)
              ELSE Contains(Replies[1].content, <<ToString(lastResponse.status)>>)

\* the scenario of the spec: 429 with the error "rate limited"
C6_Witness ==
    /\ Settled
    /\ lastResponse = Http(429, TRUE, ErrorBody(<<"rate", " ", "limited">>))
    /\ Replies = <<[role |-> "error",
                    content |-> <<"Error: ", "rate", " ", "limited">>,
                    itinerary |-> Null]>>

StringItinerary ==
    /\ Answered
    /\ lastResponse.json
    /\ lastResponse.data.hasOutput
    /\ lastResponse.data.output.t = "str"
    /\ lastResponse.data.output.s \in ItineraryTexts

CarriesItinerary(m) ==
    /\ m.role = "assistant"
    /\ m.itinerary.t = "obj"
    /\ m.itinerary.meta
    /\ m.itinerary.itin = "array"

\* C7 as claimed: for a successful response whose output is a string
\* holding a valid itinerary, fenced or not, the assistant message carries
\* the itinerary and its content is empty.
C7_ItineraryWithoutText ==
    StringItinerary
        => /\ Len(Replies) = 1
           /\ CarriesItinerary(Replies[1])
           /\ Replies[1].content = <<>>

\* C7 as amended: for a successful response whose output is a string
\* holding a valid itinerary, fenced or not, the assistant message carries
\* the itinerary and its content is the fixed caption, no text of the
\* payload.
C7_ItineraryWithCaption ==
    StringItinerary
        => /\ Len(Replies) = 1
           /\ CarriesItinerary(Replies[1])
           /\ Replies[1].content = Caption

\* a fenced itinerary inside white space has been answered
C7_Witness ==
    /\ StringItinerary
    /\ lastResponse.data.output.s = Padded(Fenced(<<"{", "M", "I", "}">>, JsonTag))
    /\ CarriesItinerary(Replies[1])
    /\ Replies[1].itinerary.days = <<"ok">>

StringWithoutItinerary ==
    /\ Answered
    /\ lastResponse.json
    /\ lastResponse.data.hasOutput
    /\ lastResponse.data.output.t = "str"
    /\ lastResponse.data.output.s \in OtherTexts

ObjectWithoutItinerary ==
    /\ Answered
    /\ lastResponse.json
    /\ lastResponse.data.t = "obj"
    /\ LastOutput.t = "obj"
    /\ (~LastOutput.meta \/ LastOutput.itin # "array")

TextReply(text) == <<[role |-> "assistant", content |-> text, itinerary |-> Null]>>

\* C8 as claimed: a payload without meta or without an array itinerary
\* gives one assistant message without itinerary whose content is the
\* original string for a string output and the serialized object for an
\* object output.
C8_FallbackOriginalText ==
    /\ StringWithoutItinerary => Replies = TextReply(lastResponse.data.output.s)
    /\ ObjectWithoutItinerary => Replies = TextReply(JSONstringify(LastOutput))

\* C8 as amended: a payload without meta or without an array itinerary
\* gives one assistant message without itinerary whose content is the
\* original string with the white space at its ends trimmed for a string
\* output and the serialized object for an object output.
C8_FallbackTrimmedText ==
    /\ StringWithoutItinerary
          => Replies = TextReply(Trim(lastResponse.data.output.s))
    /\ ObjectWithoutItinerary => Replies = TextReply(JSONstringify(LastOutput))

\* an object whose itinerary is no array has been answered with its
\* serialization
C8_Witness ==
    /\ ObjectWithoutItinerary
    /\ LastOutput = Obj(TRUE, "string", <<>>, FALSE)
    /\ Replies = TextReply(<<"{", "\n", " ", " ", "M", "\n", " ", " ", "S", "\n", "}">>)

\* ------------------------------------------------------------------------
\* Claims about stripCodeFence (SpecText)
\* ------------------------------------------------------------------------
BothStripped == fnOut.plain # "unset" /\ fnOut.wrapped # "unset"

\* C9 as claimed: for every text J, stripCodeFence of J wrapped in a fenced
\* block, with or without a language tag, equals stripCodeFence of J; a
\* text without a fence is returned trimmed and otherwise unchanged.
C9_WrapInvisible ==
    BothStripped
        => /\ fnOut.wrapped = fnOut.plain
           /\ ~Contains(fnIn.text, Fence) => fnOut.plain = Trim(fnIn.text)

\* a text that is not itself fenced and has no CRLF line break inside
PlainText(J) == ~Contains(J, Fence) /\ ~Contains(Trim(J), <<"\r", "\n">>)

\* C9 as amended: for every text J that contains no triple backtick and,
\* once trimmed, no CRLF line break, stripCodeFence of J wrapped in a fenced
\* block, with or without a language tag, equals stripCodeFence of J; a
\* text without a fence is returned trimmed and otherwise unchanged.
C9_WrapInvisibleForPlainText ==
    BothStripped
        => /\ PlainText(fnIn.text) => fnOut.wrapped = fnOut.plain
           /\ ~Contains(fnIn.text, Fence) => fnOut.plain = Trim(fnIn.text)

\* a two-line text inside white space has been stripped both ways
C9_Witness ==
    /\ BothStripped
    /\ fnIn = [text |-> <<" ", "x", "\n", "x", "\n">>, tag |-> JsonTag]
    /\ fnOut.wrapped = <<"x", "\n", "x">>

\* ------------------------------------------------------------------------
\* Claims about the itinerary viewer (SpecView)
\* ------------------------------------------------------------------------
\* C10: for an itinerary of N days, N >= 0, the current-day index stays
\* within 0..max(N-1, 0) under any sequence of previous and next: it never
\* passes the last day and never becomes negative, also for N = 0.
C10_DayIndexInRange ==
    /\ dayIndex >= 0
    /\ dayIndex <= Max({Len(viewDays) - 1, 0})

\* the viewer has been moved to the last of several days, where next is
\* disabled
C10_Witness ==
    /\ Len(viewDays) >= 2
    /\ dayIndex = Len(viewDays) - 1
    /\ nextDayDisabled(dayIndex, Len(viewDays))

\* the position safeIndex(idx) that ActivityItem shows and counts from
ShownIndex == safeIndex(imgIndex, ImagesShown)

\* C11: for a gallery of N > 0 images the image index shown stays in
\* 0..N-1 under every sequence of previous and next, previous from 0 gives
\* N-1 and next from N-1 gives 0; for N = 0 the index stays 0, no image is
\* selected and the placeholder is shown.
C11_ImageIndexWraps ==
    /\ [](IF ImagesShown > 0
          THEN ShownIndex \in 0..(ImagesShown - 1) /\ currentImage = ShownIndex
          ELSE ShownIndex = 0 /\ currentImage = -1 /\ ~hasImages)
    /\ [][ /\ PrevImage => ShownIndex' = IF ShownIndex = 0 THEN ImagesShown - 1
                                                           ELSE ShownIndex - 1
           /\ NextImage => ShownIndex' = IF ShownIndex = ImagesShown - 1 THEN 0
                                                           ELSE ShownIndex + 1
         ]_vars

\* the last of at least three images is shown on the first day, one step
\* of previous away from the first image
C11_Witness ==
    /\ dayIndex = 0
    /\ ImagesShown >= 3
    /\ currentImage = ImagesShown - 1

\* ------------------------------------------------------------------------
\* Claims about googleMapsLink (SpecLink)
\* ------------------------------------------------------------------------
\* a coordinate is present when it has a value, 0 included; a name or an
\* address is present when it is a text that is not empty
HasCoordinates == loc.given /\ loc.lat.t = "num" /\ loc.lon.t = "num"

HasName == loc.given /\ loc.name.t = "str" /\ Len(loc.name.s) > 0

HasAddress == loc.given /\ loc.address.t = "str" /\ Len(loc.address.s) > 0

\* C12: googleMapsLink gives the coordinate link when lat and lon are both
\* present (0 included), else the search link of the name when a name is
\* present, else the search link of the address when an address is
\* present, else no link; a missing or null location gives no link.
C12_MapLinkPrecedence ==
    mapUrl.done
        => /\ HasCoordinates
                => mapUrl = Link(<<"https://maps.google.com/?q=",
                                   ToString(loc.lat.n), ",", ToString(loc.lon.n)>>)
           /\ (~HasCoordinates /\ HasName)
                => /\ mapUrl.defined
                   /\ mapUrl.url = <<"https://www.google.com/maps/search/?api=1&query=">>
                                      \o encodeURIComponent(loc.name.s)
           /\ (~HasCoordinates /\ ~HasName /\ HasAddress)
                => /\ mapUrl.defined
                   /\ mapUrl.url = <<"https://www.google.com/maps/search/?api=1&query=">>
                                      \o encodeURIComponent(loc.address.s)
           /\ (~HasCoordinates /\ ~HasName /\ ~HasAddress) => ~mapUrl.defined
           /\ ~loc.given => ~mapUrl.defined

\* a location at latitude 0 and longitude 0 that also has a name and an
\* address got the coordinate link
C12_Witness ==
    /\ mapUrl.done
    /\ loc.lat = Number(0) /\ loc.lon = Number(0)
    /\ HasName /\ HasAddress
    /\ mapUrl.url = <<"https://maps.google.com/?q=", "0", ",", "0">>

\* ------------------------------------------------------------------------
\* Claims about the webhook proxy (SpecPost)
\* ------------------------------------------------------------------------
\* the endpoint was called, answered, and its body is JSON
EndpointGaveJson ==
    /\ JSONparse(req.text).ok
    /\ post.response.kind = "http"
    /\ JSONparse(post.response.text).ok

DraftReadStarts == ttsSupported /\ DraftTimerFire

\* a step in which the reply-read timer fires and speaks the reply
ReplyReadStarts == ttsSupported /\ ~listeningRef /\ ScheduleSpeakFire

\* C14: after a recognition session has ended no draft read and no reply
\* read starts until a send is accepted: the end of the session leaves no
\* reply-read timer armed and sets the post-dictation flag, and no draft
\* read or reply read starts while a session has ended and no send was
\* accepted since.
C14_NoReadAfterSessionEnd ==
    [][ /\ RecEnd => (~pendingSpeakRef' /\ readDelayAfterMicRef')
        /\ micEnded => ~(DraftReadStarts \/ ReplyReadStarts) ]_vars

\* C15: no draft (read-as-you-type) utterance starts at a moment when
\* recognition is active or the post-dictation flag is set, the moment
\* being the one at which the debounce timer fires.
C15_NoDraftReadWhileBlocked ==
    [][ DraftReadStarts => ~(RecognitionActive \/ readDelayAfterMicRef) ]_vars

\* ------------------------------------------------------------------------
\* Claims about cancellation (Spec)
\* ------------------------------------------------------------------------
\* C16: in the state right after the mic toggle started recognition no
\* utterance is queued or in progress, speaking and paused are false and
\* no reply-read timer is armed.
C16_MicStartCancelsSpeech ==
    [][ (recState # "active" /\ recState' = "active")
          => /\ utterance' = "none"
             /\ ~speaking' /\ ~paused'
             /\ ~pendingSpeakRef' ]_vars

\* the first session was started while a send made with auto-read on was
\* outstanding, auto-read still on: the session is listening and nothing
\* is queued, spoken or scheduled
C16_Witness ==
    /\ recState = "active" /\ listening /\ listeningRef /\ ~micEnded
    /\ autoRead /\ ttsSupported
    /\ inflight # <<>> /\ Head(inflight).autoRead
    /\ message = <<>>
    /\ utterance = "none" /\ ~speaking /\ ~pendingSpeakRef

\* C17: in the state right after auto-read was switched off no utterance
\* is queued or in progress and no reply-read timer is armed.
C17_AutoReadOffCancelsSpeech ==
    [][ (autoRead /\ ~autoRead')
          => /\ utterance' = "none"
             /\ ~speaking' /\ ~paused'
             /\ ~pendingSpeakRef' ]_vars

\* auto-read was switched off while a send made with auto-read on was
\* outstanding: nothing is queued, spoken or scheduled
C17_Witness ==
    /\ ~autoRead /\ ttsSupported
    /\ inflight # <<>> /\ Head(inflight).autoRead
    /\ effectsPending = {}
    /\ utterance = "none" /\ ~speaking /\ ~pendingSpeakRef

\* ------------------------------------------------------------------------
\* Claims about the message list and the loading flag (Spec)
\* ------------------------------------------------------------------------
\* the messages a step added at the end
Added == SubSeq(messages', Len(messages) + 1, Len(messages'))

\* C18: the message list starts with the welcome message; every step keeps
\* the messages it found, in place, and only adds at the end; an accepted
\* send adds the user message in the step that issues the request, so that
\* it is the last message while the request is outstanding, and the
\* messages a settlement adds, of role assistant or error, follow it.
C18_MessagesAppendOnly ==
    /\ [](/\ Len(messages) >= 1 /\ messages[1] = Welcome
          /\ inflight # <<>> => messages[Len(messages)].role = "user")
    /\ [][ /\ Len(messages') >= Len(messages)
           /\ SubSeq(messages', 1, Len(messages)) = messages
           /\ Len(inflight') > Len(inflight)
                => Added = <<[role |-> "user", content |-> Trim(message),
                              itinerary |-> Null]>>
           /\ Len(inflight') < Len(inflight)
                => /\ Len(Added) >= 1
                   /\ \A i \in 1..Len(Added) : Added[i].role \in {"assistant", "error"}
           /\ Len(inflight') = Len(inflight) => Added = <<>> ]_vars

\* two sends have been answered, the first with an assistant message and
\* the second with an error message
C18_Witness ==
    /\ Len(messages) = 5
    /\ messages[1] = Welcome
    /\ messages[2].role = "user" /\ messages[3].role = "assistant"
    /\ messages[4].role = "user" /\ messages[5].role = "error"

\* C19: while auto-read is switched off no reply read is scheduled or
\* spoken: no reply-read timer is armed and no utterance is queued or in
\* progress, also after the settlement of a send that was made while
\* auto-read was on.
C19_NoReadWhileAutoReadOff ==
    ~autoRead => (~pendingSpeakRef /\ utterance = "none")

\* C20: the loading flag is true exactly while a request is outstanding:
\* an accepted send sets it and every settlement clears it, whether it
\* ended with an assistant message, an error message or an exception in
\* the processing of the reply; once the request has settled the guard of
\* send accepts a text that is not blank.
C20_LoadingWhileOutstanding ==
    /\ loading <=> inflight # <<>>
    /\ (inflight = <<>> /\ Trim(message) # <<>>) => ~SendRejects(St, Trim(message))

\* a send settled with an exception in the processing of its reply (an
\* assistant message followed by an error message), the flag is cleared and
\* the next text is ready to be sent
C20_Witness ==
    /\ ~loading /\ inflight = <<>>
    /\ sendOutcome = "accepted"
    /\ Len(Replies) = 2
    /\ Replies[1].role = "assistant" /\ Replies[2].role = "error"
    /\ Trim(message) # <<>>

====
